---- MODULE Spec2Model ----
(***************************************************************************)
(* SqliteBoardRecordStorage (invokeai/app/services/board_record_storage.py) *)
(* as a state machine: one sqlite3 connection and cursor shared by all      *)
(* callers, guarded by one threading.Lock.  Every handler is split at the   *)
(* points where another thread can be scheduled: lock acquisition, each     *)
(* statement, commit, the except handler's rollback, and the finally        *)
(* clause's release.                                                        *)
(***************************************************************************)
EXTENDS Integers, Sequences, FiniteSets, TLC

\* ------------------------------------------------------------------ bounds
NumThreads == 2      \* concurrent callers of one store instance
MaxCalls == 2        \* calls started in one behaviour
MaxFaults == 1       \* database errors the environment injects in one behaviour
MaxClock == 2        \* last instant of the wall clock, in milliseconds
MsPerSec == 2        \* milliseconds per second of the modelled clock
NumUuids == 2        \* distinct values uuid4 can return
MaxPage == 1         \* largest offset and limit passed to get_many
NumBoards == 3       \* boards in the largest table a listing is paged over
MaxPageLen == 2      \* largest offset and limit of a paged listing
MaxPagingCalls == 3  \* calls started in one behaviour of a paged listing
MaxOpens == 3        \* instances constructed in turn on one database file

\* ------------------------------------------------------ program constants
UuidLen == 36        \* len(str(uuid.uuid4()))

Threads == 1..NumThreads
NULL == "NULL"
Names == {"A", "B"}
Covers == {"img"}

\* ------------------------------------------------------------------ strings
\* A Python str is a sequence of characters.  str(uuid.uuid4()) has UuidLen
\* characters; Uuid(k) is the k-th such string.
Uuid(k) == [i \in 1..UuidLen |-> IF i = UuidLen THEN k ELSE 0]
UuidPool == {Uuid(k) : k \in 1..NumUuids}
\* Another id string a caller may pass: a one-character one.
OtherIds == {<<7>>}
IdArgs == UuidPool \cup OtherIds

\* Timestamp text.  Each fixed-width, zero-padded field is one element, so
\* that the byte-wise (BINARY collation) order of the text is the
\* lexicographic order of the sequence, a proper prefix sorting first.
\*   STRFTIME('%Y-%m-%d %H:%M:%f', 'NOW')  ->  <<seconds, milliseconds>>
\*   current_timestamp                       ->  <<seconds>>
Strftime_f(clk) == <<clk \div MsPerSec, clk % MsPerSec>>
current_timestamp(clk) == <<clk \div MsPerSec>>

MinOf(a, b) == IF a <= b THEN a ELSE b
TextLt(a, b) ==
    \E i \in 1..(MinOf(Len(a), Len(b)) + 1) :
        /\ \A j \in 1..(i - 1) : a[j] = b[j]
        /\ \/ i > Len(a) /\ i <= Len(b)
           \/ i <= Len(a) /\ i <= Len(b) /\ a[i] < b[i]
TextLe(a, b) == a = b \/ TextLt(a, b)

\* pydantic's Union[datetime, str]: the text parses as a datetime, a missing
\* fraction reading as zero.  The datetime is its count of milliseconds.
ParseDatetime(s) == s[1] * MsPerSec + (IF Len(s) >= 2 THEN s[2] ELSE 0)

\* ------------------------------------------------------------ the database
\* A row of `boards`, as the INSERT of save creates it: the two timestamp
\* columns take their DEFAULT, evaluated once for the statement.  `boards` is
\* a rowid table (its primary key is TEXT): the row also has the hidden
\* integer rowid, which SELECT * does not return.
NewRow(rowid, id, name, clk) ==
    [rowid |-> rowid, board_id |-> id, board_name |-> name,
     cover_image_name |-> NULL,
     created_at |-> Strftime_f(clk), updated_at |-> Strftime_f(clk),
     deleted_at |-> NULL]

\* The rowid SQLite gives an inserted row: one more than the largest in use.
NextRowid(tbl) ==
    IF tbl = {} THEN 1
    ELSE (CHOOSE n \in {r.rowid : r \in tbl} : \A r \in tbl : r.rowid <= n) + 1

HasRow(tbl, id) == \E r \in tbl : r.board_id = id
RowOf(tbl, id) == CHOOSE r \in tbl : r.board_id = id

\* INSERT OR IGNORE INTO boards (board_id, board_name) VALUES (?, ?)
InsertOrIgnore(tbl, id, name, clk) ==
    IF HasRow(tbl, id) THEN tbl
    ELSE tbl \cup {NewRow(NextRowid(tbl), id, name, clk)}

\* Trigger tg_boards_updated_at, AFTER UPDATE FOR EACH ROW.
tg_boards_updated_at(r, clk) == [r EXCEPT !.updated_at = current_timestamp(clk)]

\* The statement without its WHERE clause: every row is renamed.
UpdateBoardNameNoWhere(tbl, id, name, clk) ==
    {tg_boards_updated_at([r EXCEPT !.board_name = name], clk) : r \in tbl}

\* UPDATE boards SET board_name = ? WHERE board_id = ?
UpdateBoardName(tbl, id, name, clk) ==
    {IF r.board_id = id
        THEN tg_boards_updated_at([r EXCEPT !.board_name = name], clk)
        ELSE r : r \in tbl}

\* The statement without its WHERE clause: every row gets the cover image.
UpdateCoverImageNameNoWhere(tbl, id, cover, clk) ==
    {tg_boards_updated_at([r EXCEPT !.cover_image_name = cover], clk) : r \in tbl}

\* UPDATE boards SET cover_image_name = ? WHERE board_id = ?
UpdateCoverImageName(tbl, id, cover, clk) ==
    {IF r.board_id = id
        THEN tg_boards_updated_at([r EXCEPT !.cover_image_name = cover], clk)
        ELSE r : r \in tbl}

\* DELETE FROM boards WHERE board_id = ?
DeleteFrom(tbl, id) == {r \in tbl : r.board_id # id}

\* SELECT * FROM boards WHERE board_id = ?  followed by fetchone().
\* The fetched rows are a sequence: <<>> when fetchone() returns None.
SelectById(tbl, id) == IF HasRow(tbl, id) THEN <<RowOf(tbl, id)>> ELSE <<>>
\* save's re-read of the row it inserted.
SaveQuery(tbl, id) == SelectById(tbl, id)
\* get's lookup without its WHERE clause: fetchone() yields some row.
GetQueryNoWhere(tbl, id) == IF tbl = {} THEN <<>> ELSE <<CHOOSE r \in tbl : TRUE>>
\* get's lookup.
GetQuery(tbl, id) == SelectById(tbl, id)

\* sqlite3 binds a sequence of parameters to the statement's placeholders and
\* raises ProgrammingError unless there are exactly as many.  A tuple (x,)
\* is <<x>>; a str passed as the parameters is the sequence of its characters.
BindingsOk(params, placeholders) == Len(params) = placeholders
\* delete passes (board_id), which is board_id itself, not a tuple.
DeleteParams(board_id) == board_id
\* The value bound to the placeholder: the one-character str params[1].
DeleteBoundId(params) == <<params[1]>>

\* BoardRecord(**row): the model's fields, timestamps parsed, deleted_at dropped.
BoardRecord(row) ==
    [board_id |-> row.board_id, board_name |-> row.board_name,
     created_at |-> ParseDatetime(row.created_at),
     updated_at |-> ParseDatetime(row.updated_at),
     cover_image_name |-> row.cover_image_name]

\* The connection: `rows` is the table as statements on the connection see
\* it, `disk` the committed table, `txn` whether a transaction is open.
NoTxn(d) == [d EXCEPT !.rows = d.disk, !.txn = FALSE]
\* A data-modifying statement: sqlite3 opens a transaction first.
Dml(d, tbl) == [d EXCEPT !.rows = tbl, !.txn = TRUE]
\* Connection.commit()
CommitDb(d) == IF d.txn THEN [d EXCEPT !.disk = d.rows, !.txn = FALSE] ELSE d
\* A handler without its rollback: the connection stays as it is.
RollbackOmitted(d) == d
\* Connection.rollback()
RollbackDb(d) == IF d.txn THEN NoTxn(d) ELSE d

\* ---------------------------------------------------------------- the state
VARIABLES
    ctor,       \* position of __init__: "acquire" .. "ready" or "failed"
    schema,     \* the schema objects of the database file
    lock,       \* _lock: Unlocked, or the thread that acquired it
    db,         \* _conn/_cursor: [rows, disk, txn]
    clock,      \* the wall clock 'NOW' reads, in milliseconds
    pc,         \* pc[t]: where caller t stands in its handler
    call,       \* call[t]: the operation t is in and its arguments
    fetched,    \* fetched[t]: the rows of t's last fetchone()/fetchall()
    ret,        \* ret[t]: <<>> or <<the value t's call returns>>
    exc,        \* exc[t]: "none" or the exception t's call raises
    calls,      \* calls started so far
    faults,     \* database errors injected so far
    generated,  \* history: every id uuid4 has returned or a stored row has
    pre,        \* history: the table as the lock's holder found it, {} when free
    last,       \* history: <<r>> if the call that last released the lock was
                \* a save that returned r, else <<>>
    priv,       \* history: priv[t] is t's call replayed alone
    gh,         \* history of t's call: gh[t].faulted (the environment made a
                \* database call raise), gh[t].fresh (uuid4 returned a new
                \* id), gh[t].had (board_id had a row when t took the lock),
                \* gh[t].prev (the value of `last` when t took the lock),
                \* gh[t].disk (the committed table when t took the lock),
                \* gh[t].at (the step whose database call first raised)
    hist        \* history of the store: hist.first is <<>> or <<f>>, f the
                \* last get_many(0, f.limit) that returned, with the ids of
                \* its items (f.ids) and the table it read (f.tbl);
                \* hist.touch lists the board ids, the board whose row a
                \* call created or updated last coming last

vars == <<ctor, schema, lock, db, clock, pc, call, fetched, ret, exc, calls,
          faults, generated, pre, last, priv, gh, hist>>

Unlocked == 0
Constructor == NumThreads + 1

SchemaObjects == <<"boards", "idx_boards_created_at", "tg_boards_updated_at">>
FullSchema == {SchemaObjects[i] : i \in 1..Len(SchemaObjects)}

NoCall ==
    [op |-> "none", board_id |-> <<>>, board_name |-> NULL,
     changes |-> [board_name |-> NULL, cover_image_name |-> NULL],
     offset |-> 0, limit |-> 0]
NoGhost ==
    [faulted |-> FALSE, fresh |-> FALSE, had |-> FALSE, prev |-> <<>>,
     disk |-> {}, at |-> "none"]
NoPriv == [rows |-> {}, disk |-> {}, txn |-> FALSE]

\* The database file the constructor opens: absent (empty), or one an earlier
\* instance initialised and saved a board in.
InitialFiles ==
    {[schema |-> {}, rows |-> {}, touch |-> <<>>],
     [schema |-> FullSchema, rows |-> {NewRow(1, Uuid(1), "A", 0)},
      touch |-> <<Uuid(1)>>]}

Init ==
    \E f \in InitialFiles :
        /\ ctor = "acquire"
        /\ schema = f.schema
        /\ lock = Unlocked
        /\ db = [rows |-> f.rows, disk |-> f.rows, txn |-> FALSE]
        /\ clock = 0
        /\ pc = [t \in Threads |-> "idle"]
        /\ call = [t \in Threads |-> NoCall]
        /\ fetched = [t \in Threads |-> <<>>]
        /\ ret = [t \in Threads |-> <<>>]
        /\ exc = [t \in Threads |-> "none"]
        /\ calls = 0
        /\ faults = 0
        /\ generated = {r.board_id : r \in f.rows}
        /\ pre = {}
        /\ last = <<>>
        /\ priv = [t \in Threads |-> NoPriv]
        /\ gh = [t \in Threads |-> NoGhost]
        /\ hist = [first |-> <<>>, touch |-> f.touch]

\* Whether the environment makes the next database call raise sqlite3.Error.
FaultChoices == IF faults < MaxFaults THEN {FALSE, TRUE} ELSE {FALSE}
Inject(f) == faults' = IF f THEN faults + 1 ELSE faults

\* ------------------------------------------------------------- __init__
CtorAcquire ==
    /\ ctor = "acquire"
    /\ lock = Unlocked
    /\ lock' = Constructor
    /\ ctor' = "pragma"
    /\ pre' = db.rows
    /\ UNCHANGED <<schema, db, clock, pc, call, fetched, ret, exc, calls,
                   faults, generated, last, priv, gh, hist>>

\* self._conn.execute("PRAGMA foreign_keys = ON;")
CtorPragma ==
    /\ ctor = "pragma"
    /\ \E f \in FaultChoices :
        /\ Inject(f)
        /\ ctor' = IF f THEN "finally_raising" ELSE "create_tables"
    /\ UNCHANGED <<schema, lock, db, clock, pc, call, fetched, ret, exc,
                   calls, generated, pre, last, priv, gh, hist>>

\* A plain CREATE raises "... already exists" for an object the schema has.
CreateRaisesIfExists(sch, obj) == obj \in sch

\* Whether CREATE ... IF NOT EXISTS raises for an object: it never does, the
\* statement is a no-op when the schema has the object.
CreateRaises(sch, obj) == FALSE

\* _create_tables: three CREATE ... IF NOT EXISTS statements, each committed
\* as it runs (sqlite3 opens no transaction for DDL); the first k succeed,
\* and for k < 3 the next one raises, of itself or by a database error.
CtorCreateTables ==
    /\ ctor = "create_tables"
    /\ \E k \in 0..Len(SchemaObjects) :
        LET before(i) == schema \cup {SchemaObjects[j] : j \in 1..(i - 1)}
            raises(i) == CreateRaises(before(i), SchemaObjects[i])
            f == k < Len(SchemaObjects) /\ ~raises(k + 1)
        IN
        /\ \A i \in 1..k : ~raises(i)
        /\ f \in FaultChoices
        /\ Inject(f)
        /\ schema' = schema \cup {SchemaObjects[i] : i \in 1..k}
        /\ ctor' = IF k < Len(SchemaObjects) THEN "finally_raising" ELSE "commit"
    /\ UNCHANGED <<lock, db, clock, pc, call, fetched, ret, exc, calls,
                   generated, pre, last, priv, gh, hist>>

\* self._conn.commit(): no transaction is open, nothing to do.
CtorCommit ==
    /\ ctor = "commit"
    /\ db' = CommitDb(db)
    /\ ctor' = "finally"
    /\ UNCHANGED <<schema, lock, clock, pc, call, fetched, ret, exc, calls,
                   faults, generated, pre, last, priv, gh, hist>>

CtorFinally ==
    /\ ctor \in {"finally", "finally_raising"}
    /\ lock' = Unlocked
    /\ ctor' = IF ctor = "finally" THEN "ready" ELSE "failed"
    /\ pre' = {}
    /\ UNCHANGED <<schema, db, clock, pc, call, fetched, ret, exc, calls,
                   faults, generated, last, priv, gh, hist>>

\* ------------------------------------------------------ the callers' steps
\* A caller enters an operation of the constructed store.  Callers are
\* interchangeable: the call is run by the first idle one.
Enter(t, c, fresh) ==
    /\ ctor = "ready"
    /\ pc[t] = "idle"
    /\ \A u \in Threads : u < t => pc[u] # "idle"
    /\ calls < MaxCalls
    /\ calls' = calls + 1
    /\ call' = [call EXCEPT ![t] = c]
    /\ gh' = [gh EXCEPT ![t] = [NoGhost EXCEPT !.fresh = fresh]]
    /\ pc' = [pc EXCEPT ![t] = "acquire"]
    /\ UNCHANGED <<ctor, schema, lock, db, clock, fetched, ret, exc, faults,
                   pre, last, priv, hist>>

CallDelete(t) ==
    \E id \in IdArgs :
        /\ Enter(t, [NoCall EXCEPT !.op = "delete", !.board_id = id], FALSE)
        /\ UNCHANGED generated

\* board_id = str(uuid.uuid4()) runs before the lock is taken.
CallSave(t) ==
    \E name \in Names, u \in UuidPool :
        /\ Enter(t, [NoCall EXCEPT !.op = "save", !.board_id = u,
                                   !.board_name = name], u \notin generated)
        /\ generated' = generated \cup {u}

CallGet(t) ==
    \E id \in IdArgs :
        /\ Enter(t, [NoCall EXCEPT !.op = "get", !.board_id = id], FALSE)
        /\ UNCHANGED generated

CallUpdate(t) ==
    \E id \in IdArgs, n \in Names \cup {NULL}, c \in Covers \cup {NULL} :
        /\ Enter(t, [NoCall EXCEPT !.op = "update", !.board_id = id,
                         !.changes = [board_name |-> n, cover_image_name |-> c]],
                 FALSE)
        /\ UNCHANGED generated

CallGetMany(t) ==
    \E o \in 0..MaxPage, l \in 0..MaxPage :
        /\ Enter(t, [NoCall EXCEPT !.op = "get_many", !.offset = o, !.limit = l],
                 FALSE)
        /\ UNCHANGED generated

\* An acquire that does not wait (acquire(blocking=False), result ignored).
LockNeverBlocks == TRUE

\* self._lock.acquire() returns once the lock is free.
LockAvailable == lock = Unlocked

FirstStep(op) ==
    CASE op = "delete" -> "delete_execute"
      [] op = "save" -> "save_insert"
      [] op = "get" -> "get_select"
      [] op = "update" -> "update_name"
      [] op = "get_many" -> "get_many_select"

Acquire(t) ==
    /\ pc[t] = "acquire"
    /\ LockAvailable
    /\ lock' = t
    /\ pc' = [pc EXCEPT ![t] = FirstStep(call[t].op)]
    /\ pre' = db.rows
    /\ priv' = [priv EXCEPT ![t] = db]
    /\ gh' = [gh EXCEPT ![t].had = HasRow(db.rows, call[t].board_id),
                         ![t].prev = last,
                         ![t].disk = db.disk]
    /\ UNCHANGED <<ctor, schema, db, clock, call, fetched, ret, exc, calls,
                   faults, generated, last, hist>>

\* One call on the shared connection by t: the connection becomes d2 (and
\* t's replay p2), t moves to `next`; f tells whether the environment made
\* the call raise.
DbCall(t, d2, p2, next, f) ==
    /\ Inject(f)
    /\ db' = d2
    /\ priv' = [priv EXCEPT ![t] = p2]
    /\ pc' = [pc EXCEPT ![t] = next]
    /\ gh' = [gh EXCEPT ![t].faulted = @ \/ f,
                         ![t].at = IF f /\ @ = "none" THEN pc[t] ELSE @]
    /\ UNCHANGED <<ctor, schema, lock, clock, call, calls, generated, pre, last,
                   hist>>

\* self._conn.commit() inside a try block.
CommitStep(t, okpc, errpc) ==
    \E f \in (IF db.txn THEN FaultChoices ELSE {FALSE}) :
        DbCall(t, IF f THEN db ELSE CommitDb(db),
                  IF f THEN priv[t] ELSE CommitDb(priv[t]),
                  IF f THEN errpc ELSE okpc, f)

\* except sqlite3.Error as e: self._conn.rollback(); raise <wrapped> from e.
\* A rollback that raises propagates its own sqlite3.Error, having undone the
\* transaction or not.
Handler(t, wrapped, finpc) ==
    \E f \in (IF db.txn THEN FaultChoices ELSE {FALSE}), undone \in BOOLEAN :
        /\ ~f => undone
        /\ DbCall(t, IF undone THEN RollbackDb(db) ELSE db,
                     IF undone THEN RollbackDb(priv[t]) ELSE priv[t], finpc, f)
        /\ exc' = [exc EXCEPT ![t] = IF f THEN "sqlite3.Error" ELSE wrapped]
        /\ UNCHANGED <<fetched, ret>>

\* A release written after the try block instead of in its finally clause:
\* a call that is raising leaves the lock as it is.
ReleasedUnlessRaising(t) == IF exc[t] = "none" THEN Unlocked ELSE lock

\* finally: self._lock.release().  The lock's value once t has released it.
Released(t) == Unlocked

\* The history as t's call leaves it.
Touched(t) ==
    LET id == call[t].board_id IN
    /\ HasRow(db.rows, id)
    /\ \/ ~HasRow(pre, id)
       \/ RowOf(db.rows, id) # RowOf(pre, id)
       \/ /\ call[t].op = "update"
          /\ exc[t] = "none"
          /\ call[t].changes # NoCall.changes
Without(s, x) == SelectSeq(s, LAMBDA y : y # x)
Recorded(t) ==
    [first |-> IF call[t].op = "get_many" /\ exc[t] = "none" /\ call[t].offset = 0
                  THEN <<[limit |-> call[t].limit,
                          ids |-> [i \in 1..Len(fetched[t]) |->
                                      fetched[t][i].board_id],
                          tbl |-> db.rows]>>
                  ELSE hist.first,
     touch |-> LET kept == SelectSeq(hist.touch, LAMBDA y : HasRow(db.rows, y))
               IN  IF Touched(t)
                      THEN Append(Without(kept, call[t].board_id),
                                  call[t].board_id)
                      ELSE kept]

Finally(t, next) ==
    /\ lock' = Released(t)
    /\ last' = IF call[t].op = "save" /\ exc[t] = "none" THEN ret[t] ELSE <<>>
    /\ hist' = Recorded(t)
    /\ pre' = {}
    /\ priv' = [priv EXCEPT ![t] = NoPriv]
    /\ pc' = [pc EXCEPT ![t] = next]
    /\ UNCHANGED <<ctor, schema, db, clock, call, fetched, ret, exc, calls,
                   faults, generated, gh>>

\* ---------------------------------------------------------------- delete
DeleteExecute(t) ==
    /\ pc[t] = "delete_execute"
    /\ LET params == DeleteParams(call[t].board_id)
           bound == BindingsOk(params, 1)
       IN  \E f \in (IF bound THEN FaultChoices ELSE {FALSE}) :
               LET ok == bound /\ ~f
                   stmt(d) == Dml(d, IF ok THEN DeleteFrom(d.rows, DeleteBoundId(params))
                                           ELSE d.rows)
               IN  DbCall(t, stmt(db), stmt(priv[t]),
                          IF ok THEN "delete_commit" ELSE "delete_except", f)
    /\ UNCHANGED <<fetched, ret, exc>>

DeleteCommit(t) ==
    /\ pc[t] = "delete_commit"
    /\ CommitStep(t, "delete_finally", "delete_except")
    /\ UNCHANGED <<fetched, ret, exc>>

DeleteExcept(t) ==
    /\ pc[t] = "delete_except"
    /\ Handler(t, "BoardRecordDeleteException", "delete_finally")

DeleteFinally(t) ==
    /\ pc[t] = "delete_finally"
    /\ Finally(t, "done")

\* ------------------------------------------------------------------ save
SaveInsert(t) ==
    /\ pc[t] = "save_insert"
    /\ \E f \in FaultChoices :
           LET stmt(d) == Dml(d, IF f THEN d.rows
                                      ELSE InsertOrIgnore(d.rows, call[t].board_id,
                                                          call[t].board_name, clock))
           IN  DbCall(t, stmt(db), stmt(priv[t]),
                      IF f THEN "save_except" ELSE "save_commit", f)
    /\ UNCHANGED <<fetched, ret, exc>>

SaveCommit(t) ==
    /\ pc[t] = "save_commit"
    /\ CommitStep(t, "save_select", "save_except")
    /\ UNCHANGED <<fetched, ret, exc>>

\* The re-read by id, fetchone() and return BoardRecord(**result);
\* BoardRecord(**None) is a TypeError, which the handler does not catch.
SaveSelect(t) ==
    /\ pc[t] = "save_select"
    /\ \E f \in FaultChoices :
           LET got == IF f THEN <<>> ELSE SaveQuery(db.rows, call[t].board_id) IN
           /\ DbCall(t, db, priv[t], IF f THEN "save_except" ELSE "save_finally", f)
           /\ fetched' = [fetched EXCEPT ![t] = got]
           /\ ret' = [ret EXCEPT ![t] = IF got = <<>> THEN <<>>
                                         ELSE <<BoardRecord(got[1])>>]
           /\ exc' = [exc EXCEPT ![t] = IF ~f /\ got = <<>> THEN "TypeError"
                                         ELSE "none"]

SaveExcept(t) ==
    /\ pc[t] = "save_except"
    /\ Handler(t, "BoardRecordSaveException", "save_finally")

SaveFinally(t) ==
    /\ pc[t] = "save_finally"
    /\ Finally(t, "done")

\* ------------------------------------------------------------------- get
GetSelect(t) ==
    /\ pc[t] = "get_select"
    /\ \E f \in FaultChoices :
           /\ DbCall(t, db, priv[t], IF f THEN "get_except" ELSE "get_finally", f)
           /\ fetched' = [fetched EXCEPT ![t] =
                              IF f THEN <<>> ELSE GetQuery(db.rows, call[t].board_id)]
    /\ UNCHANGED <<ret, exc>>

GetExcept(t) ==
    /\ pc[t] = "get_except"
    /\ Handler(t, "BoardRecordNotFoundException", "get_finally")

GetFinally(t) ==
    /\ pc[t] = "get_finally"
    /\ Finally(t, IF exc[t] = "none" THEN "get_post" ELSE "done")

\* After the lock is released: if result is None: raise ...; return BoardRecord(...)
GetPost(t) ==
    /\ pc[t] = "get_post"
    /\ IF fetched[t] = <<>>
          THEN /\ exc' = [exc EXCEPT ![t] = "BoardRecordNotFoundException"]
               /\ UNCHANGED ret
          ELSE /\ ret' = [ret EXCEPT ![t] = <<BoardRecord(fetched[t][1])>>]
               /\ UNCHANGED exc
    /\ pc' = [pc EXCEPT ![t] = "done"]
    /\ UNCHANGED <<ctor, schema, lock, db, clock, call, fetched, calls, faults,
                   generated, pre, last, priv, gh, hist>>

\* ---------------------------------------------------------------- update
\* A patch field taken as present whatever its value.
AlwaysPresent(v) == TRUE

\* `changes.<field> is not None`
IsNotNone(v) == v # NULL

\* if changes.board_name is not None: UPDATE boards SET board_name = ? ...
UpdateName(t) ==
    /\ pc[t] = "update_name"
    /\ LET name == call[t].changes.board_name IN
       \E f \in (IF ~IsNotNone(name) THEN {FALSE} ELSE FaultChoices) :
           LET stmt(d) == IF ~IsNotNone(name) THEN d
                          ELSE Dml(d, IF f THEN d.rows
                                      ELSE UpdateBoardName(d.rows, call[t].board_id,
                                                           name, clock))
           IN  DbCall(t, stmt(db), stmt(priv[t]),
                      IF f THEN "update_except" ELSE "update_cover", f)
    /\ UNCHANGED <<fetched, ret, exc>>

\* if changes.cover_image_name is not None: UPDATE boards SET cover_image_name = ? ...
UpdateCover(t) ==
    /\ pc[t] = "update_cover"
    /\ LET cover == call[t].changes.cover_image_name IN
       \E f \in (IF ~IsNotNone(cover) THEN {FALSE} ELSE FaultChoices) :
           LET stmt(d) == IF ~IsNotNone(cover) THEN d
                          ELSE Dml(d, IF f THEN d.rows
                                      ELSE UpdateCoverImageName(d.rows, call[t].board_id,
                                                                cover, clock))
           IN  DbCall(t, stmt(db), stmt(priv[t]),
                      IF f THEN "update_except" ELSE "update_commit", f)
    /\ UNCHANGED <<fetched, ret, exc>>

UpdateCommit(t) ==
    /\ pc[t] = "update_commit"
    /\ CommitStep(t, "update_finally", "update_except")
    /\ UNCHANGED <<fetched, ret, exc>>

UpdateExcept(t) ==
    /\ pc[t] = "update_except"
    /\ Handler(t, "BoardRecordSaveException", "update_finally")

UpdateFinally(t) ==
    /\ pc[t] = "update_finally"
    /\ Finally(t, "done")

\* -------------------------------------------------------------- get_many
\* ORDER BY updated_at DESC with ties in any order: the rows in any order that
\* never puts a row before one whose updated_at text is greater.
OrderingsAnyTies(tbl) ==
    LET n == Cardinality(tbl) IN
    {s \in [1..n -> tbl] :
        /\ \A i, j \in 1..n : i # j => s[i] # s[j]
        /\ \A i, j \in 1..n : i < j => ~TextLt(s[i].updated_at, s[j].updated_at)}

\* ORDER BY updated_at DESC.  No index covers updated_at: SQLite scans the
\* table in rowid order into a sorter keyed by (updated_at DESC, arrival), so
\* rows with equal updated_at text come out in rowid order.
Orderings(tbl) ==
    LET n == Cardinality(tbl) IN
    {s \in [1..n -> tbl] :
        /\ \A i, j \in 1..n : i # j => s[i] # s[j]
        /\ \A i, j \in 1..n : i < j => ~TextLt(s[i].updated_at, s[j].updated_at)
        /\ \A i, j \in 1..n :
               (i < j /\ s[i].updated_at = s[j].updated_at) => s[i].rowid < s[j].rowid}

\* The two parameters bound in the wrong order, (offset, limit).
LimitOffsetSwapped(s, limit, offset) ==
    SubSeq(s, limit + 1, MinOf(Len(s), limit + offset))

\* LIMIT ? OFFSET ?
LimitOffset(s, limit, offset) == SubSeq(s, offset + 1, MinOf(Len(s), offset + limit))

GetManySelect(t) ==
    /\ pc[t] = "get_many_select"
    /\ \E f \in FaultChoices, s \in Orderings(db.rows) :
           /\ DbCall(t, db, priv[t],
                     IF f THEN "get_many_except" ELSE "get_many_count", f)
           /\ fetched' = [fetched EXCEPT ![t] =
                              IF f THEN <<>>
                              ELSE LimitOffset(s, call[t].limit, call[t].offset)]
    /\ UNCHANGED <<ret, exc>>

\* SELECT COUNT(*) FROM boards WHERE 1=1, then the OffsetPaginatedResults.
GetManyCount(t) ==
    /\ pc[t] = "get_many_count"
    /\ \E f \in FaultChoices :
           /\ DbCall(t, db, priv[t],
                     IF f THEN "get_many_except" ELSE "get_many_finally", f)
           /\ ret' = [ret EXCEPT ![t] =
                          IF f THEN <<>>
                          ELSE <<[items |-> [i \in 1..Len(fetched[t]) |->
                                                BoardRecord(fetched[t][i])],
                                  offset |-> call[t].offset,
                                  limit |-> call[t].limit,
                                  total |-> Cardinality(db.rows)]>>]
    /\ UNCHANGED <<fetched, exc>>

\* except sqlite3.Error as e: self._conn.rollback(); raise e
GetManyExcept(t) ==
    /\ pc[t] = "get_many_except"
    /\ Handler(t, "sqlite3.Error", "get_many_finally")

GetManyFinally(t) ==
    /\ pc[t] = "get_many_finally"
    /\ Finally(t, "done")

\* ------------------------------------------------------------ environment
\* The call has returned or raised; the caller is free to call again.
Return(t) ==
    /\ pc[t] = "done"
    /\ pc' = [pc EXCEPT ![t] = "idle"]
    /\ call' = [call EXCEPT ![t] = NoCall]
    /\ fetched' = [fetched EXCEPT ![t] = <<>>]
    /\ ret' = [ret EXCEPT ![t] = <<>>]
    /\ exc' = [exc EXCEPT ![t] = "none"]
    /\ gh' = [gh EXCEPT ![t] = NoGhost]
    /\ UNCHANGED <<ctor, schema, lock, db, clock, calls, faults, generated,
                   pre, last, priv, hist>>

\* Time passes.
Tick ==
    /\ ctor = "ready"
    /\ clock < MaxClock
    /\ clock' = clock + 1
    /\ UNCHANGED <<ctor, schema, lock, db, pc, call, fetched, ret, exc, calls,
                   faults, generated, pre, last, priv, gh, hist>>

Next ==
    \/ CtorAcquire \/ CtorPragma \/ CtorCreateTables \/ CtorCommit \/ CtorFinally
    \/ Tick
    \/ \E t \in Threads :
        \/ CallDelete(t) \/ CallSave(t) \/ CallGet(t) \/ CallUpdate(t)
        \/ CallGetMany(t)
        \/ Acquire(t)
        \/ DeleteExecute(t) \/ DeleteCommit(t) \/ DeleteExcept(t) \/ DeleteFinally(t)
        \/ SaveInsert(t) \/ SaveCommit(t) \/ SaveSelect(t) \/ SaveExcept(t)
        \/ SaveFinally(t)
        \/ GetSelect(t) \/ GetExcept(t) \/ GetFinally(t) \/ GetPost(t)
        \/ UpdateName(t) \/ UpdateCover(t) \/ UpdateCommit(t) \/ UpdateExcept(t)
        \/ UpdateFinally(t)
        \/ GetManySelect(t) \/ GetManyCount(t) \/ GetManyExcept(t)
        \/ GetManyFinally(t)
        \/ Return(t)

Spec == Init /\ [][Next]_vars

\* The steps of __init__.
CtorStep ==
    CtorAcquire \/ CtorPragma \/ CtorCreateTables \/ CtorCommit \/ CtorFinally

\* --------------------------------------------------------------- progress
\* The steps of caller t inside an operation, from self._lock.acquire() to
\* the return or raise.
Step(t) ==
    \/ Acquire(t)
    \/ DeleteExecute(t) \/ DeleteCommit(t) \/ DeleteExcept(t) \/ DeleteFinally(t)
    \/ SaveInsert(t) \/ SaveCommit(t) \/ SaveSelect(t) \/ SaveExcept(t)
    \/ SaveFinally(t)
    \/ GetSelect(t) \/ GetExcept(t) \/ GetFinally(t) \/ GetPost(t)
    \/ UpdateName(t) \/ UpdateCover(t) \/ UpdateCommit(t) \/ UpdateExcept(t)
    \/ UpdateFinally(t)
    \/ GetManySelect(t) \/ GetManyCount(t) \/ GetManyExcept(t)
    \/ GetManyFinally(t)

\* The store while the wall clock stands still (no step of the lock protocol
\* reads it).
FairNext ==
    \/ CtorStep
    \/ \E t \in Threads :
        \/ CallDelete(t) \/ CallSave(t) \/ CallGet(t) \/ CallUpdate(t)
        \/ CallGetMany(t)
        \/ Step(t)
        \/ Return(t)

\* Every call on the database finishes, by returning or by raising, and a
\* thread that can run is run: a step that stays possible is taken.
FairSpec ==
    /\ Init
    /\ [][FairNext]_vars
    /\ WF_vars(CtorStep)
    /\ \A t \in Threads : WF_vars(Step(t))

\* ------------------------------------------------------- a paged listing
\* One caller pages through the boards with get_many while another renames
\* boards with update, on a store constructed over a table that earlier
\* saves (and an update) filled; the environment injects no database error.
RECURSIVE SavedBoards(_)
SavedBoards(n) ==
    IF n = 0 THEN {} ELSE InsertOrIgnore(SavedBoards(n - 1), Uuid(n), "A", 0)

PagedFiles ==
    {[rows |-> SavedBoards(n), touch |-> [k \in 1..n |-> Uuid(k)]] :
        n \in 0..NumBoards}
    \cup
    {[rows |-> UpdateBoardName(SavedBoards(n), Uuid(1), "B", 0),
      touch |-> [k \in 1..n |-> IF k = n THEN Uuid(1) ELSE Uuid(k + 1)]] :
        n \in 1..NumBoards}

Pager == 1
Writer == 2

PagingInit ==
    \E f \in PagedFiles :
        /\ ctor = "ready"
        /\ schema = FullSchema
        /\ lock = Unlocked
        /\ db = [rows |-> f.rows, disk |-> f.rows, txn |-> FALSE]
        /\ clock = 0
        /\ pc = [t \in Threads |-> "idle"]
        /\ call = [t \in Threads |-> NoCall]
        /\ fetched = [t \in Threads |-> <<>>]
        /\ ret = [t \in Threads |-> <<>>]
        /\ exc = [t \in Threads |-> "none"]
        /\ calls = 0
        /\ faults = MaxFaults
        /\ generated = {r.board_id : r \in f.rows}
        /\ pre = {}
        /\ last = <<>>
        /\ priv = [t \in Threads |-> NoPriv]
        /\ gh = [t \in Threads |-> NoGhost]
        /\ hist = [first |-> <<>>, touch |-> f.touch]

PagingEnter(t, c) ==
    /\ pc[t] = "idle"
    /\ calls < MaxPagingCalls
    /\ calls' = calls + 1
    /\ call' = [call EXCEPT ![t] = c]
    /\ gh' = [gh EXCEPT ![t] = NoGhost]
    /\ pc' = [pc EXCEPT ![t] = "acquire"]
    /\ UNCHANGED <<ctor, schema, lock, db, clock, fetched, ret, exc, faults,
                   generated, pre, last, priv, hist>>

\* get_many(offset, limit)
PagerCall ==
    \E o \in 0..MaxPageLen, l \in 0..MaxPageLen :
        PagingEnter(Pager, [NoCall EXCEPT !.op = "get_many", !.offset = o,
                                          !.limit = l])

\* update(board_id, BoardChanges(board_name=n))
WriterCall ==
    \E k \in 1..NumBoards, n \in Names :
        PagingEnter(Writer, [NoCall EXCEPT !.op = "update", !.board_id = Uuid(k),
                                           !.changes.board_name = n])

PagingNext ==
    \/ Tick
    \/ PagerCall
    \/ WriterCall
    \/ \E t \in Threads :
        \/ Acquire(t)
        \/ UpdateName(t) \/ UpdateCover(t) \/ UpdateCommit(t) \/ UpdateFinally(t)
        \/ GetManySelect(t) \/ GetManyCount(t) \/ GetManyFinally(t)
        \/ Return(t)

PagingSpec == PagingInit /\ [][PagingNext]_vars

\* ------------------------------------------------------------ construction
\* Instances constructed one after another on one database file, which an
\* earlier instance created, left partly or fully initialised, and
\* populated; the environment injects no database error.
SchemaPrefixes == {{SchemaObjects[i] : i \in 1..k} : k \in 0..Len(SchemaObjects)}
ExistingFiles ==
    {[schema |-> sch, rows |-> f.rows, touch |-> f.touch] :
        sch \in SchemaPrefixes \ {{}}, f \in PagedFiles}
    \cup {[schema |-> {}, rows |-> {}, touch |-> <<>>]}

CtorInit ==
    \E f \in ExistingFiles :
        /\ ctor = "acquire"
        /\ schema = f.schema
        /\ lock = Unlocked
        /\ db = [rows |-> f.rows, disk |-> f.rows, txn |-> FALSE]
        /\ clock = 0
        /\ pc = [t \in Threads |-> "idle"]
        /\ call = [t \in Threads |-> NoCall]
        /\ fetched = [t \in Threads |-> <<>>]
        /\ ret = [t \in Threads |-> <<>>]
        /\ exc = [t \in Threads |-> "none"]
        /\ calls = 0
        /\ faults = MaxFaults
        /\ generated = {r.board_id : r \in f.rows}
        /\ pre = {}
        /\ last = <<>>
        /\ priv = [t \in Threads |-> NoPriv]
        /\ gh = [t \in Threads |-> NoGhost]
        /\ hist = [first |-> <<>>, touch |-> f.touch]

\* SqliteBoardRecordStorage(filename) once more: a new lock, and a new
\* connection, which sees what is committed.  `calls` counts the
\* constructions after the first.
Reopen ==
    /\ ctor \in {"ready", "failed"}
    /\ \A t \in Threads : pc[t] = "idle"
    /\ calls + 1 < MaxOpens
    /\ calls' = calls + 1
    /\ ctor' = "acquire"
    /\ lock' = Unlocked
    /\ db' = NoTxn(db)
    /\ UNCHANGED <<schema, clock, pc, call, fetched, ret, exc, faults,
                   generated, pre, last, priv, gh, hist>>

CtorNext == CtorStep \/ Reopen

CtorSpec == CtorInit /\ [][CtorNext]_vars

\* ================================================================ claims
\* t is between its lock acquisition and its release.
InCS(t) == pc[t] \notin {"idle", "acquire", "get_post", "done"}
\* t's call has returned or raised.
Exited(t) == pc[t] = "done"
Constructed == ctor \in {"ready", "failed"}

\* C1: once an operation (the constructor, save, get, update, delete or
\* get_many) has exited, by returning or by raising from a statement, a
\* commit, a rollback or get's not-found check, that caller does not hold
\* the lock; with no caller inside an operation the lock is free.
C1_LockReleasedOnExit ==
    /\ Constructed => lock # Constructor
    /\ \A t \in Threads : (Exited(t) \/ pc[t] = "idle") => lock # t
    /\ (Constructed /\ \A t \in Threads : ~InCS(t)) => lock = Unlocked

\* A delete whose rollback raised has exited and the lock is free.
C1_Witness ==
    \E t \in Threads :
        /\ Exited(t)
        /\ call[t].op = "delete"
        /\ exc[t] = "sqlite3.Error"
        /\ lock = Unlocked

\* C2: at most one caller is between acquisition and release, every step on
\* the shared connection and cursor is taken by the caller holding the lock.
C2_MutualExclusion ==
    /\ Cardinality({t \in Threads : InCS(t)}) <= 1
    /\ \A t \in Threads : InCS(t) => lock = t
    /\ ~Constructed => \A t \in Threads : pc[t] = "idle"

\* One caller is between update's two statements while another waits.
C2_Witness ==
    \E t, u \in Threads :
        /\ t # u
        /\ pc[t] = "update_cover"
        /\ db.txn
        /\ pc[u] = "acquire"

\* C3: every operation runs as in a serial execution in lock order: at each of
\* its steps the connection is exactly what the operation would have produced
\* running alone from the state it found when it took the lock, so what it
\* reads, returns and leaves behind contains no part of another caller's
\* operation in progress.
C3_Serializable ==
    \A t \in Threads :
        InCS(t) => /\ priv[t].rows = db.rows
                   /\ priv[t].disk = db.disk
                   /\ priv[t].txn = db.txn

\* A save has inserted but not committed while another caller's get waits.
C3_Witness ==
    \E t, u \in Threads :
        /\ t # u
        /\ pc[t] = "save_commit"
        /\ db.rows # db.disk
        /\ pc[u] = "acquire"
        /\ call[u].op = "get"
        /\ call[u].board_id = call[t].board_id

\* t is about to release the lock after running `op` to its end without
\* raising (its statements and commit are done).
Completing(t, op) ==
    /\ call[t].op = op
    /\ pc[t] \in {"delete_finally", "save_finally", "get_finally",
                  "update_finally", "get_many_finally"}
    /\ exc[t] = "none"

\* t is about to release the lock after running `op`, having returned or
\* raised, the environment having injected no database error into the call.
Finishing(t, op) ==
    /\ call[t].op = op
    /\ pc[t] \in {"delete_finally", "save_finally", "get_finally",
                  "update_finally", "get_many_finally"}
    /\ ~gh[t].faulted

OtherRows(tbl, id) == {r \in tbl : r.board_id # id}

\* C4: a save(name) that returns yields a record whose board_id is the id of
\* no row that existed before the call and of no id generated earlier, whose
\* board_name is name, whose cover_image_name is null and whose created_at
\* equals its updated_at, and the table holds exactly one more row.
C4_SaveCreatesFreshBoard ==
    \A t \in Threads :
        (Completing(t, "save") /\ ret[t] # <<>>) =>
            LET r == ret[t][1] IN
            /\ ~HasRow(pre, r.board_id)
            /\ gh[t].fresh
            /\ r.board_name = call[t].board_name
            /\ r.cover_image_name = NULL
            /\ r.created_at = r.updated_at
            /\ Cardinality(db.rows) = Cardinality(pre) + 1

\* C5: delete(id) of an id that has a row returns without error and removes
\* that row, so that a get(id) after it finds nothing; every other row is
\* left unchanged.
C5_DeleteRemovesRow ==
    \A t \in Threads :
        (Finishing(t, "delete") /\ gh[t].had) =>
            /\ exc[t] = "none"
            /\ GetQuery(db.rows, call[t].board_id) = <<>>
            /\ db.rows = OtherRows(pre, call[t].board_id)

\* C6: delete(id) of an id that has no row returns normally and leaves the
\* table unchanged.
C6_DeleteUnknownIsNoOp ==
    \A t \in Threads :
        (Finishing(t, "delete") /\ ~gh[t].had) =>
            /\ exc[t] = "none"
            /\ db.rows = pre

\* C7: in every row of the committed table the stored created_at is at most
\* the stored updated_at.
C7_CreatedAtMostUpdated ==
    \A r \in db.disk : TextLe(r.created_at, r.updated_at)

NonEmptyPatch(c) == c.board_name # NULL \/ c.cover_image_name # NULL

\* C8: after update(id, patch) of an existing board with a non-empty patch,
\* the updated_at that get(id) returns is strictly greater than the one the
\* row had before the update.
C8_UpdatedAtStrictlyGreater ==
    \A t \in Threads :
        (Completing(t, "update") /\ gh[t].had /\ NonEmptyPatch(call[t].changes)) =>
            BoardRecord(RowOf(db.rows, call[t].board_id)).updated_at
                > BoardRecord(RowOf(pre, call[t].board_id)).updated_at

\* C9: an update(id, patch) of an existing board that returns sets exactly
\* the fields present in the patch: get(id) then returns board_name X for a
\* patch naming X and the old board_name for a patch without one, likewise
\* cover_image_name; board_id and created_at are as before, and no row with
\* another id is changed.
C9_UpdateFrame ==
    \A t \in Threads :
        (Completing(t, "update") /\ gh[t].had) =>
            LET id == call[t].board_id
                patch == call[t].changes
                old == BoardRecord(RowOf(pre, id))
                got == GetQuery(db.rows, id)
                new == BoardRecord(got[1])
            IN  /\ got # <<>>
                /\ new.board_id = old.board_id
                /\ new.created_at = old.created_at
                /\ new.board_name = IF patch.board_name # NULL
                                       THEN patch.board_name ELSE old.board_name
                /\ new.cover_image_name = IF patch.cover_image_name # NULL
                                             THEN patch.cover_image_name
                                             ELSE old.cover_image_name
                /\ OtherRows(db.rows, id) = OtherRows(pre, id)

\* An update that renames board "A" to "B", names no cover image and
\* completes, in a table that holds another board too.
C9_Witness ==
    \E t \in Threads :
        /\ Completing(t, "update")
        /\ gh[t].had
        /\ call[t].changes = [board_name |-> "B", cover_image_name |-> NULL]
        /\ RowOf(pre, call[t].board_id).board_name = "A"
        /\ OtherRows(db.rows, call[t].board_id) # {}

\* C10: when save returned record r and the next operation on the store is
\* get(r.board_id), that get returns a record equal to r in every field.
C10_GetAfterSave ==
    \A t \in Threads :
        (/\ Exited(t)
         /\ call[t].op = "get"
         /\ ~gh[t].faulted
         /\ gh[t].prev # <<>>
         /\ gh[t].prev[1].board_id = call[t].board_id) =>
            /\ exc[t] = "none"
            /\ ret[t] = gh[t].prev

\* A get of the board the preceding save created, after the clock moved on,
\* in a table that holds another board too.
C10_Witness ==
    \E t \in Threads :
        /\ Exited(t)
        /\ call[t].op = "get"
        /\ gh[t].prev # <<>>
        /\ gh[t].prev[1].board_id = call[t].board_id
        /\ ret[t] # <<>>
        /\ ret[t][1].created_at > 0
        /\ Cardinality(db.rows) = 2

\* C11: a get(id) into which the environment injects no database error
\* leaves the table as it found it; for an id without a row it raises
\* BoardRecordNotFoundException and returns no record, for an id with a row
\* it returns the record of that row.
C11_GetFoundOrNotFound ==
    \A t \in Threads :
        (call[t].op = "get" /\ ~gh[t].faulted) =>
            /\ pc[t] = "get_finally" =>
                   /\ db.rows = pre
                   /\ fetched[t] = SelectById(pre, call[t].board_id)
            /\ Exited(t) =>
                   IF gh[t].had
                      THEN /\ exc[t] = "none"
                           /\ fetched[t] # <<>>
                           /\ fetched[t][1].board_id = call[t].board_id
                           /\ ret[t] = <<BoardRecord(fetched[t][1])>>
                      ELSE /\ exc[t] = "BoardRecordNotFoundException"
                           /\ ret[t] = <<>>

\* A get of a well-formed id that has no row, in a table that holds a board,
\* has raised BoardRecordNotFoundException.
C11_Witness ==
    \E t \in Threads :
        /\ Exited(t)
        /\ call[t].op = "get"
        /\ call[t].board_id \in UuidPool
        /\ ~gh[t].faulted
        /\ ~gh[t].had
        /\ exc[t] = "BoardRecordNotFoundException"
        /\ db.rows # {}

\* C12: an update(id, patch) of an id that has no row, whatever the patch
\* (name, cover image, both or neither), returns without raising when the
\* environment injects no database error, and leaves the table exactly as it
\* found it: no row is created and no row changes in any column, updated_at
\* included.
C12_UpdateUnknownIsNoOp ==
    \A t \in Threads :
        (Finishing(t, "update") /\ ~gh[t].had) =>
            /\ exc[t] = "none"
            /\ db.rows = pre

\* An update of an unknown well-formed id with both fields in the patch has
\* completed, after the clock moved on, in a table that holds a board.
C12_Witness ==
    \E t \in Threads :
        /\ Completing(t, "update")
        /\ ~gh[t].had
        /\ call[t].board_id \in UuidPool
        /\ call[t].changes.board_name # NULL
        /\ call[t].changes.cover_image_name # NULL
        /\ clock > 0
        /\ pre # {}

MaxOf(a, b) == IF a >= b THEN a ELSE b
Ids(s) == {s[i] : i \in 1..Len(s)}
\* The board ids of the rows t fetched, in the order fetched.
FetchedIds(t) == [i \in 1..Len(fetched[t]) |-> fetched[t][i].board_id]
\* t's get_many is the fetch of the page after the one hist.first recorded.
SecondPage(t) ==
    /\ Completing(t, "get_many")
    /\ hist.first # <<>>
    /\ call[t].limit = hist.first[1].limit
    /\ call[t].offset = hist.first[1].limit

\* C13: a get_many(offset, limit) that returns, on a table of N rows, returns
\* min(limit, max(0, N - offset)) items, total N and the offset and limit
\* it was given; and when the table is the one get_many(0, L) read, the
\* items of get_many(L, L) share no board with that first page and the two
\* pages in sequence are the first min(2L, N) boards of one ordering of the
\* table by updated_at descending.
C13_PageSizes ==
    \A t \in Threads :
        Completing(t, "get_many") =>
            LET r == ret[t][1]
                N == Cardinality(pre)
            IN  /\ ret[t] # <<>>
                /\ Len(r.items) = MinOf(call[t].limit, MaxOf(0, N - call[t].offset))
                /\ r.total = N
                /\ r.offset = call[t].offset
                /\ r.limit = call[t].limit
                /\ (SecondPage(t) /\ hist.first[1].tbl = db.rows) =>
                       LET both == hist.first[1].ids \o FetchedIds(t) IN
                       /\ Ids(hist.first[1].ids) \cap Ids(FetchedIds(t)) = {}
                       /\ Len(both) = MinOf(2 * call[t].limit, N)
                       /\ \E s \in OrderingsAnyTies(db.rows) :
                              \A i \in 1..Len(both) : s[i].board_id = both[i]

\* Over three boards with equal updated_at, get_many(2, 2) returns the one
\* board that get_many(0, 2) left.
C13_Witness ==
    \E t \in Threads :
        /\ SecondPage(t)
        /\ hist.first[1].tbl = db.rows
        /\ call[t].limit = 2
        /\ Cardinality(db.rows) = 3
        /\ \A r1, r2 \in db.rows : r1.updated_at = r2.updated_at
        /\ Len(hist.first[1].ids) = 2
        /\ Len(ret[t][1].items) = 1

\* The place of board id x in the order of last touches.
TouchPos(x) == CHOOSE k \in 1..Len(hist.touch) : hist.touch[k] = x

\* C14: get_many(0, limit) lists the boards most recently touched first: of
\* two boards in the returned items, the one whose row a save or update
\* wrote later comes first.
C14_MostRecentlyTouchedFirst ==
    \A t \in Threads :
        (Completing(t, "get_many") /\ call[t].offset = 0) =>
            \A i, j \in 1..Len(fetched[t]) :
                TouchPos(fetched[t][i].board_id) > TouchPos(fetched[t][j].board_id)
                    => i < j

\* C15: with every database call finishing and every runnable thread run, the
\* store does not deadlock: a held lock is released, and a caller that has
\* entered an operation, whether or not an earlier operation failed with a
\* database error, acquires the lock and returns or raises.
C15_NoDeadlock ==
    /\ (lock # Unlocked) ~> (lock = Unlocked)
    /\ \A t \in Threads : (pc[t] = "acquire") ~> (pc[t] = "done")

\* A caller waits for the lock while its holder, an update that a database
\* error made raise, is about to release it.
C15_Witness ==
    \E t, u \in Threads :
        /\ t # u
        /\ lock = t
        /\ pc[t] = "update_finally"
        /\ gh[t].faulted
        /\ exc[t] = "BoardRecordSaveException"
        /\ pc[u] = "acquire"

\* C16: constructing the store on a database file succeeds, also when an
\* earlier instance has initialised and populated the file; when __init__ is
\* about to release the lock the file has exactly the boards table, the
\* created_at index and the updated_at trigger, and the table, committed
\* and as the connection sees it, holds the rows it held before, equal in
\* every column; a further construction changes nothing at any of its steps.
C16_ConstructionIdempotent ==
    /\ ctor \notin {"finally_raising", "failed"}
    /\ ctor \in {"finally", "ready"} =>
           /\ schema = FullSchema
           /\ Cardinality(schema) = Len(SchemaObjects)
    /\ ctor = "finally" => (db.rows = pre /\ db.disk = pre)
    /\ calls >= 1 =>
           /\ schema = FullSchema
           /\ ctor \notin {"acquire", "ready"} => (db.rows = pre /\ db.disk = pre)

\* The second construction on a file with three boards, one of them renamed,
\* is about to return.
C16_Witness ==
    /\ ctor = "finally"
    /\ calls = 1
    /\ Cardinality(db.disk) = 3
    /\ \E r \in db.disk : r.board_name = "B"

\* The except handler of t's call ran its rollback to the end and raised the
\* operation's own exception.
RolledBack(t, wrapped) ==
    /\ pc[t] \in {"delete_finally", "save_finally", "update_finally"}
    /\ exc[t] = wrapped
\* Nothing of t's call is persisted or left for a later operation to see: the
\* committed table is the one t found and is what the connection sees.
NothingLeft(t) ==
    /\ db.disk = gh[t].disk
    /\ db.rows = db.disk
    /\ ~db.txn

C18_FailedSaveLeavesNoRow ==
    \A t \in Threads :
        (call[t].op = "save" /\ RolledBack(t, "BoardRecordSaveException")) =>
            /\ db.disk = gh[t].disk
            /\ db.rows = db.disk

\* The ids of the first n boards of the listing of table tbl.
TopIds(tbl, n) ==
    LET s == CHOOSE o \in Orderings(tbl) : TRUE
    IN  {s[i].board_id : i \in 1..MinOf(n, Len(s))}
\* A board of the first page is in the second page too.
Overlap(t) == Ids(hist.first[1].ids) \cap Ids(FetchedIds(t)) # {}
\* A board that was among the first 2L of the listing at both fetches is in
\* neither page.
Skipped(t) ==
    \E b \in TopIds(hist.first[1].tbl, 2 * call[t].limit)
               \cap TopIds(db.rows, 2 * call[t].limit) :
        b \notin Ids(hist.first[1].ids) \cup Ids(FetchedIds(t))

\* C19: paging is unstable only against writes: when get_many(L, L) follows
\* get_many(0, L) and a board is in both pages, or a board listed among the
\* first 2L at both fetches is in neither, then a write has changed the
\* table between the two fetches; over an unchanged table neither happens.
\* (That an update between the fetches does cause both is C19_Witness.)
C19_UnstableOnlyUnderWrites ==
    \A t \in Threads :
        (SecondPage(t) /\ (Overlap(t) \/ Skipped(t))) =>
            hist.first[1].tbl # db.rows

\* The pager fetched get_many(0, L), the writer's update committed, and the
\* pager's get_many(L, L) returns a board of the first page again while a
\* board that existed throughout is in neither page.
C19_Witness ==
    /\ SecondPage(Pager)
    /\ call[Pager].limit >= 1
    /\ Overlap(Pager)
    /\ Skipped(Pager)
    /\ db.disk = db.rows
    /\ {r.board_id : r \in db.rows} = {r.board_id : r \in hist.first[1].tbl}
    /\ hist.touch # <<>>
    /\ RowOf(db.rows, hist.touch[Len(hist.touch)]).updated_at
           = current_timestamp(clock)

\* C20: board_name is non-null in every row, committed or seen by the
\* connection, of every reachable state; and no step clears a cover image:
\* a committed row whose cover_image_name is non-null has, as long as the
\* row exists, a non-null cover_image_name after every step.
C20_CoverNeverCleared ==
    /\ [](\A r \in db.rows \cup db.disk : r.board_name # NULL)
    /\ [][\A r \in db.disk : \A q \in db.disk' :
               (q.board_id = r.board_id /\ r.cover_image_name # NULL)
                   => q.cover_image_name # NULL]_vars

\* An update whose patch names no cover image has completed on a board that
\* has one, and the board still has it.
C20_Witness ==
    \E t \in Threads :
        /\ Completing(t, "update")
        /\ gh[t].had
        /\ call[t].changes = [board_name |-> "B", cover_image_name |-> NULL]
        /\ RowOf(gh[t].disk, call[t].board_id).cover_image_name = "img"
        /\ RowOf(db.disk, call[t].board_id).cover_image_name = "img"
        /\ RowOf(db.disk, call[t].board_id).board_name = "B"

====
